---- MODULE Spec2Model ----
(***************************************************************************)
(* A model of api-mocker: the mock resolution engine of lib/index.js       *)
(* (class ApiMocker) and the forced-error plumbing of bin/api-mocker.js.   *)
(*                                                                         *)
(* Strings the code takes apart (paths, file names, error codes, header    *)
(* values) are sequences of one-character strings, so that split,          *)
(* startsWith, endsWith, substring and concatenation are computed, not     *)
(* assumed.  JSON values are tagged records, so that values of different   *)
(* JavaScript types can be compared (=== between a number and a string is  *)
(* false, not an error).                                                   *)
(***************************************************************************)
EXTENDS Integers, Sequences, FiniteSets, TLC

VARIABLES
  disk,           \* the rule tree under mockDirectory: file path -> content
  delay,          \* ApiMocker.delay
  errorRate,      \* ApiMocker.errorRate, in percent
  nextErrorCode,  \* bin/api-mocker.js: let nextErrorCode
  errorForPath,   \* bin/api-mocker.js: let errorForPath
  call,           \* the call being made: the function and its arguments
  ret             \* what the call returned

vars == <<disk, delay, errorRate, nextErrorCode, errorForPath, call, ret>>

(***************************************************************************)
(* Bounds of the model.                                                    *)
(***************************************************************************)
MaxSegs == 2      \* longest request path / template, in segments
MaxConds == 2     \* longest condition list of an error scenario
MaxRequests == 3  \* requests that arrive in a run of the concurrent server
MaxCommands == 2  \* lines the operator types in a run of the concurrent server

(***************************************************************************)
(* JavaScript values.                                                      *)
(***************************************************************************)
Null == [null |-> TRUE]
Undefined == [undefined |-> TRUE]
JStr(s) == [str |-> s]
JNum(n) == [num |-> n]
JBool(b) == [bool |-> b]
JObj(m) == [obj |-> m]
JArr(a) == [arr |-> a]

IsStr(v) == DOMAIN v = {"str"}
IsNum(v) == DOMAIN v = {"num"}
IsObj(v) == DOMAIN v = {"obj"}

EmptyMap == <<>>

\* a map given as a set of <<key, value>> pairs
MapOf(pairs) == [k \in {p[1] : p \in pairs} |-> (CHOOSE p \in pairs : p[1] = k)[2]]

\* obj[key], undefined when the key is absent
Get(m, k) == IF k \in DOMAIN m THEN m[k] ELSE Undefined

\* obj[key] = value
Put(m, k, v) == [x \in (DOMAIN m) \cup {k} |-> IF x = k THEN v ELSE m[x]]

\* delete obj[key]
Delete(m, k) == [x \in (DOMAIN m) \ {k} |-> m[x]]

\* { ...a, ...b }
Spread(a, b) == [x \in (DOMAIN a) \cup (DOMAIN b) |-> IF x \in DOMAIN b THEN b[x] ELSE a[x]]

\* JavaScript truthiness
Truthy(v) ==
  CASE v = Null -> FALSE
    [] v = Undefined -> FALSE
    [] IsStr(v) -> v.str # <<>>
    [] IsNum(v) -> v.num # 0
    [] DOMAIN v = {"bool"} -> v.bool
    [] OTHER -> TRUE

(***************************************************************************)
(* Strings.                                                                *)
(***************************************************************************)
Slash == <<"/">>
DotJson == <<".", "j", "s", "o", "n">>
IndexJson == <<"i", "n", "d", "e", "x", ".", "j", "s", "o", "n">>
ErrorsName == <<"e", "r", "r", "o", "r", "s">>
GlobalErrorsName == <<"_", "e", "r", "r", "o", "r", "s">>
GET == <<"G", "E", "T">>
POST == <<"P", "O", "S", "T">>
PUT == <<"P", "U", "T">>
LBracket == <<"[">>
RBracket == <<"]">>
Underscore == <<"_">>

StartsWith(s, p) == Len(s) >= Len(p) /\ SubSeq(s, 1, Len(p)) = p
EndsWith(s, p) == Len(s) >= Len(p) /\ SubSeq(s, Len(s) - Len(p) + 1, Len(s)) = p

\* s.substring(from, to), for 0 <= from <= to <= s.length
Substring(s, from, to) == SubSeq(s, from + 1, to)

\* s.split('/')
RECURSIVE SplitFrom(_, _, _)
SplitFrom(s, i, cur) ==
  IF i > Len(s) THEN <<cur>>
  ELSE IF s[i] = "/" THEN <<cur>> \o SplitFrom(s, i + 1, <<>>)
  ELSE SplitFrom(s, i + 1, Append(cur, s[i]))

SplitSlash(s) == SplitFrom(s, 1, <<>>)

\* .filter(Boolean) on an array of strings
FilterBoolean(parts) == SelectSeq(parts, LAMBDA p : p # <<>>)

\* '/' + segs.join('/')
RECURSIVE JoinSlash(_)
JoinSlash(segs) ==
  IF segs = <<>> THEN <<>>
  ELSE IF Len(segs) = 1 THEN segs[1]
  ELSE segs[1] \o Slash \o JoinSlash(Tail(segs))

SeqsUpTo(S, n) == UNION {[1..k -> S] : k \in 0..n}

(***************************************************************************)
(* parsePathParams                                                         *)
(***************************************************************************)
IsParamSegment(dirPart) == StartsWith(dirPart, LBracket) /\ EndsWith(dirPart, RBracket)

ParamName(dirPart) == Substring(dirPart, 1, Len(dirPart) - 1)

RECURSIVE MatchSegments(_, _, _, _)
MatchSegments(dirParts, requestParts, i, params) ==
  IF i > Len(dirParts) THEN JObj(params)
  ELSE IF IsParamSegment(dirParts[i])
       THEN MatchSegments(dirParts, requestParts, i + 1,
                          Put(params, ParamName(dirParts[i]), requestParts[i]))
       ELSE IF dirParts[i] # requestParts[i] THEN Null
       ELSE MatchSegments(dirParts, requestParts, i + 1, params)

\* a mutant: a repeated parameter name keeps its first binding
RECURSIVE MatchSegmentsFirstWins(_, _, _, _)
MatchSegmentsFirstWins(dirParts, requestParts, i, params) ==
  IF i > Len(dirParts) THEN JObj(params)
  ELSE IF IsParamSegment(dirParts[i])
       THEN MatchSegmentsFirstWins(dirParts, requestParts, i + 1,
              IF ParamName(dirParts[i]) \in DOMAIN params THEN params
              ELSE Put(params, ParamName(dirParts[i]), requestParts[i]))
       ELSE IF dirParts[i] # requestParts[i] THEN Null
       ELSE MatchSegmentsFirstWins(dirParts, requestParts, i + 1, params)

ParsePathParamsFirstWins(requestPath, mockDirPath) ==
  LET dirParts == FilterBoolean(SplitSlash(mockDirPath))
      requestParts == FilterBoolean(SplitSlash(requestPath))
  IN IF Len(dirParts) # Len(requestParts) THEN Null
     ELSE MatchSegmentsFirstWins(dirParts, requestParts, 1, EmptyMap)

ParsePathParams(requestPath, mockDirPath) ==
  LET dirParts == FilterBoolean(SplitSlash(mockDirPath))
      requestParts == FilterBoolean(SplitSlash(requestPath))
  IN IF Len(dirParts) # Len(requestParts) THEN Null
     ELSE MatchSegments(dirParts, requestParts, 1, EmptyMap)

(***************************************************************************)
(* errorApplies and evaluateConditions                                     *)
(***************************************************************************)
Throw == [throw |-> TRUE]         \* an exception leaves the function

Existing == <<"e", "x", "i", "s", "t", "i", "n", "g">>
BearerPrefix == <<"B", "e", "a", "r", "e", "r", " ">>
existing_email == <<"e", "x", "i", "s", "t", "i", "n", "g", "_", "e", "m", "a", "i", "l">>
invalid_input == <<"i", "n", "v", "a", "l", "i", "d", "_", "i", "n", "p", "u", "t">>
unauthorized == <<"u", "n", "a", "u", "t", "h", "o", "r", "i", "z", "e", "d">>
forbidden == <<"f", "o", "r", "b", "i", "d", "d", "e", "n">>
guest == <<"g", "u", "e", "s", "t">>

\* s.includes(sub)
Includes(s, sub) == \E i \in 0..(Len(s) - Len(sub)) : SubSeq(s, i + 1, i + Len(sub)) = sub

\* a === b: objects and arrays are equal only by reference, and the values
\* compared here are parsed from different documents
StrictEquals(a, b) == a = b /\ DOMAIN a \notin {{"obj"}, {"arr"}}

\* one block of evaluateConditions: does `matches` survive the block for
\* condition.<part> (declared) against the request's map (actual)?
BlockMatches(declared, actual) ==
  IF Truthy(declared) /\ Truthy(actual)
  THEN \A key \in DOMAIN declared.obj :
         StrictEquals(Get(actual.obj, key), declared.obj[key])
  ELSE TRUE

ConditionMatches(condition, body, query, headers) ==
  /\ BlockMatches(Get(condition.obj, "body"), body)
  /\ BlockMatches(Get(condition.obj, "query"), query)
  /\ BlockMatches(Get(condition.obj, "headers"), headers)

EvaluateConditions(conditions, body, query, headers) ==
  \E i \in 1..Len(conditions.arr) : ConditionMatches(conditions.arr[i], body, query, headers)

\* the switch of errorApplies; the JavaScript value returned is reduced to
\* its truthiness, which is all the caller's `if` reads
BuiltinScenario(scenario, body, headers) ==
  CASE scenario = existing_email ->
         IF ~Truthy(body) \/ ~Truthy(Get(body.obj, "email")) THEN JBool(FALSE)
         ELSE IF ~IsStr(body.obj["email"]) THEN Throw
         ELSE JBool(Includes(body.obj["email"].str, Existing))
    [] scenario = invalid_input ->
         IF ~Truthy(body) THEN JBool(FALSE)
         ELSE JBool(\/ Get(body.obj, "name") = JStr(<<>>)
                    \/ Get(body.obj, "email") = JStr(<<>>)
                    \/ /\ Truthy(Get(body.obj, "password"))
                       /\ IsStr(body.obj["password"])
                       /\ Len(body.obj["password"].str) < 6)
    [] scenario = unauthorized ->
         IF ~IsObj(headers) THEN Throw
         ELSE IF ~Truthy(Get(headers.obj, "authorization")) THEN JBool(TRUE)
         ELSE IF ~IsStr(headers.obj["authorization"]) THEN Throw
         ELSE JBool(~StartsWith(headers.obj["authorization"].str, BearerPrefix))
    [] scenario = forbidden ->
         IF ~IsObj(headers) THEN Throw
         ELSE JBool(Get(headers.obj, "role") = JStr(guest))
    [] OTHER -> JBool(FALSE)

ErrorApplies(errorData, scenario, body, query, headers) ==
  IF Truthy(Get(errorData, "_conditions"))
  THEN JBool(EvaluateConditions(errorData["_conditions"], body, query, headers))
  ELSE BuiltinScenario(scenario, body, headers)

(***************************************************************************)
(* The rule tree.  disk maps the path of every file under mockDirectory    *)
(* (a sequence of names) to its content: a parsed JSON object, or          *)
(* Malformed when the text is not JSON.  A directory exists when a file    *)
(* lies under it.                                                          *)
(***************************************************************************)
Malformed == [malformed |-> TRUE]
JsonFile(m) == [json |-> m]

IsFile(path) == path \in DOMAIN disk
IsDirectory(path) ==
  \E f \in DOMAIN disk : Len(f) > Len(path) /\ SubSeq(f, 1, Len(path)) = path

\* fs.existsSync(path)
ExistsSync(path) == IsFile(path) \/ IsDirectory(path)

\* a mutant: a file an earlier call has read is answered from what that call
\* saw (call.tree, where the call in progress records it)
ReadJsonCached(path) ==
  LET seen == IF "tree" \in DOMAIN call /\ path \in DOMAIN call.tree THEN call.tree ELSE disk
  IN IF IsFile(path) /\ seen[path] # Malformed THEN JObj(seen[path].json) ELSE Throw

\* JSON.parse(fs.readFileSync(path, 'utf8')): the object, or an exception
\* (EISDIR for a directory, SyntaxError for text that is not JSON)
ReadJson(path) ==
  IF IsFile(path) /\ disk[path] # Malformed THEN JObj(disk[path].json) ELSE Throw

(***************************************************************************)
(* Numbers and letters as text.                                            *)
(***************************************************************************)
Msg400 ==
  <<"T", "h", "e", " ", "r", "e", "q", "u", "e", "s", "t", " ", "w", "a", "s", " ", "m",
    "a", "l", "f", "o", "r", "m", "e", "d", " ", "o", "r", " ", "c", "o", "n", "t", "a",
    "i", "n", "s", " ", "i", "n", "v", "a", "l", "i", "d", " ", "p", "a", "r", "a", "m",
    "e", "t", "e", "r", "s", ".">>
Msg401 ==
  <<"A", "u", "t", "h", "e", "n", "t", "i", "c", "a", "t", "i", "o", "n", " ", "i", "s",
    " ", "r", "e", "q", "u", "i", "r", "e", "d", " ", "t", "o", " ", "a", "c", "c", "e",
    "s", "s", " ", "t", "h", "i", "s", " ", "r", "e", "s", "o", "u", "r", "c", "e", ".">>
Msg403 ==
  <<"Y", "o", "u", " ", "d", "o", " ", "n", "o", "t", " ", "h", "a", "v", "e", " ", "p",
    "e", "r", "m", "i", "s", "s", "i", "o", "n", " ", "t", "o", " ", "a", "c", "c", "e",
    "s", "s", " ", "t", "h", "i", "s", " ", "r", "e", "s", "o", "u", "r", "c", "e", ".">>
Msg404Head ==
  <<"R", "e", "s", "o", "u", "r", "c", "e", " ", "a", "t", " ">>
Msg404Tail ==
  <<" ", "w", "a", "s", " ", "n", "o", "t", " ", "f", "o", "u", "n", "d", ".">>
Msg409 ==
  <<"T", "h", "e", " ", "r", "e", "q", "u", "e", "s", "t", " ", "c", "o", "n", "f", "l",
    "i", "c", "t", "s", " ", "w", "i", "t", "h", " ", "t", "h", "e", " ", "c", "u", "r",
    "r", "e", "n", "t", " ", "s", "t", "a", "t", "e", " ", "o", "f", " ", "t", "h", "e",
    " ", "s", "e", "r", "v", "e", "r", ".">>
Msg429 ==
  <<"R", "a", "t", "e", " ", "l", "i", "m", "i", "t", " ", "e", "x", "c", "e", "e", "d",
    "e", "d", ".", " ", "P", "l", "e", "a", "s", "e", " ", "t", "r", "y", " ", "a", "g",
    "a", "i", "n", " ", "l", "a", "t", "e", "r", ".">>
Msg500 ==
  <<"A", "n", " ", "u", "n", "e", "x", "p", "e", "c", "t", "e", "d", " ", "e", "r", "r",
    "o", "r", " ", "o", "c", "c", "u", "r", "r", "e", "d", " ", "w", "h", "i", "l", "e",
    " ", "p", "r", "o", "c", "e", "s", "s", "i", "n", "g", " ", "t", "h", "e", " ", "r",
    "e", "q", "u", "e", "s", "t", ".">>
Msg503 ==
  <<"T", "h", "e", " ", "s", "e", "r", "v", "i", "c", "e", " ", "i", "s", " ", "c", "u",
    "r", "r", "e", "n", "t", "l", "y", " ", "u", "n", "a", "v", "a", "i", "l", "a", "b",
    "l", "e", ".", " ", "P", "l", "e", "a", "s", "e", " ", "t", "r", "y", " ", "a", "g",
    "a", "i", "n", " ", "l", "a", "t", "e", "r", ".">>
Name400 ==
  <<"B", "a", "d", " ", "R", "e", "q", "u", "e", "s", "t">>
Name401 ==
  <<"U", "n", "a", "u", "t", "h", "o", "r", "i", "z", "e", "d">>
Name403 ==
  <<"F", "o", "r", "b", "i", "d", "d", "e", "n">>
Name404 ==
  <<"N", "o", "t", " ", "F", "o", "u", "n", "d">>
Name409 ==
  <<"C", "o", "n", "f", "l", "i", "c", "t">>
Name429 ==
  <<"T", "o", "o", " ", "M", "a", "n", "y", " ", "R", "e", "q", "u", "e", "s", "t", "s">>
Name500 ==
  <<"I", "n", "t", "e", "r", "n", "a", "l", " ", "S", "e", "r", "v", "e", "r", " ", "E",
    "r", "r", "o", "r">>
Name503 ==
  <<"S", "e", "r", "v", "i", "c", "e", " ", "U", "n", "a", "v", "a", "i", "l", "a", "b",
    "l", "e">>
UpperCase ==
  <<"A", "B", "C", "D", "E", "F", "G", "H", "I", "J", "K", "L", "M", "N", "O", "P", "Q",
    "R", "S", "T", "U", "V", "W", "X", "Y", "Z">>
LowerCase ==
  <<"a", "b", "c", "d", "e", "f", "g", "h", "i", "j", "k", "l", "m", "n", "o", "p", "q",
    "r", "s", "t", "u", "v", "w", "x", "y", "z">>
DigitChars ==
  <<"0", "1", "2", "3", "4", "5", "6", "7", "8", "9">>
badrequest ==
  <<"b", "a", "d", "r", "e", "q", "u", "e", "s", "t">>
notfound ==
  <<"n", "o", "t", "f", "o", "u", "n", "d">>
conflict ==
  <<"c", "o", "n", "f", "l", "i", "c", "t">>
servererror ==
  <<"s", "e", "r", "v", "e", "r", "e", "r", "r", "o", "r">>
PathPlaceholder ==
  <<"{", "p", "a", "t", "h", "}">>
MethodPlaceholder ==
  <<"{", "m", "e", "t", "h", "o", "d", "}">>

IndexOf(seq, ch) == CHOOSE i \in 1..Len(seq) : seq[i] = ch
IsDigit(ch) == \E i \in 1..Len(DigitChars) : DigitChars[i] = ch
DigitValue(ch) == IndexOf(DigitChars, ch) - 1

\* s.toLowerCase()
ToLowerCase(s) ==
  [i \in 1..Len(s) |->
     IF \E j \in 1..Len(UpperCase) : UpperCase[j] = s[i]
     THEN LowerCase[IndexOf(UpperCase, s[i])]
     ELSE s[i]]

\* String(n) for an integer n
RECURSIVE NatToStr(_)
NatToStr(n) ==
  IF n < 10 THEN <<DigitChars[n + 1]>>
  ELSE NatToStr(n \div 10) \o <<DigitChars[(n % 10) + 1]>>

NumToStr(n) == IF n < 0 THEN <<"-">> \o NatToStr(-n) ELSE NatToStr(n)

\* the value of the digits s[i..], read until the first character that is
\* no digit; acc is the value read so far
RECURSIVE ReadDigits(_, _, _)
ReadDigits(s, i, acc) ==
  IF i > Len(s) \/ ~IsDigit(s[i]) THEN acc
  ELSE ReadDigits(s, i + 1, acc * 10 + DigitValue(s[i]))

NaN == [nan |-> TRUE]

\* parseInt(v, 10): of a number, the number; of a string, an optional sign
\* and the leading digits, NaN when there is none
ParseInt(v) ==
  IF IsNum(v) THEN v
  ELSE LET s == v.str
           signed == s # <<>> /\ s[1] \in {"-", "+"}
           first == IF signed THEN 2 ELSE 1
       IN IF first > Len(s) \/ ~IsDigit(s[first]) THEN NaN
          ELSE JNum((IF signed /\ s[1] = "-" THEN -1 ELSE 1) * ReadDigits(s, first, 0))

\* s.replace(/pat/g, rep) for a literal pat
RECURSIVE ReplaceAll(_, _, _)
ReplaceAll(s, pat, rep) ==
  IF Len(s) < Len(pat) THEN s
  ELSE IF SubSeq(s, 1, Len(pat)) = pat
       THEN rep \o ReplaceAll(SubSeq(s, Len(pat) + 1, Len(s)), pat, rep)
       ELSE <<s[1]>> \o ReplaceAll(Tail(s), pat, rep)

(***************************************************************************)
(* getErrorResponse                                                        *)
(***************************************************************************)
\* the object literal errorMap
ErrorMap ==
  (badrequest :> 400) @@ (unauthorized :> 401) @@ (forbidden :> 403) @@
  (notfound :> 404) @@ (conflict :> 409) @@ (servererror :> 500)

DefaultErrorBody(name, message) ==
  JObj(MapOf({<<"error", JStr(name)>>, <<"message", JStr(message)>>}))

\* the object literal defaultErrors, built for this request
DefaultErrors(requestPath, method) ==
  (400 :> DefaultErrorBody(Name400, Msg400)) @@
  (401 :> DefaultErrorBody(Name401, Msg401)) @@
  (403 :> DefaultErrorBody(Name403, Msg403)) @@
  (404 :> DefaultErrorBody(Name404, Msg404Head \o method \o <<" ">> \o requestPath \o Msg404Tail)) @@
  (409 :> DefaultErrorBody(Name409, Msg409)) @@
  (429 :> DefaultErrorBody(Name429, Msg429)) @@
  (500 :> DefaultErrorBody(Name500, Msg500)) @@
  (503 :> DefaultErrorBody(Name503, Msg503))

\* errorMap[key]: an own property, or one of the properties every object
\* literal inherits under an all-lower-case name (Object.prototype's
\* constructor and __proto__), whose values are truthy and no numbers
constructor ==
  <<"c", "o", "n", "s", "t", "r", "u", "c", "t", "o", "r">>
proto ==
  <<"_", "_", "p", "r", "o", "t", "o", "_", "_">>
ConstructorText ==
  <<"f", "u", "n", "c", "t", "i", "o", "n", " ", "O", "b", "j", "e", "c", "t", "(", ")",
    " ", "{", " ", "[", "n", "a", "t", "i", "v", "e", " ", "c", "o", "d", "e", "]", " ",
    "}">>
ProtoText ==
  <<"[", "o", "b", "j", "e", "c", "t", " ", "O", "b", "j", "e", "c", "t", "]">>

Inherited(text) == [inherited |-> text]

ErrorMapLookup(key) ==
  CASE key \in DOMAIN ErrorMap -> JNum(ErrorMap[key])
    [] key = constructor -> Inherited(ConstructorText)
    [] key = proto -> Inherited(ProtoText)
    [] OTHER -> Undefined

\* let statusCode = parseInt(errorCode, 10);
\* if (isNaN(statusCode)) statusCode = errorMap[errorCode.toLowerCase()] || 500
StatusCodeOf(errorCode) ==
  IF ParseInt(errorCode) # NaN THEN ParseInt(errorCode)
  ELSE IF Truthy(ErrorMapLookup(ToLowerCase(errorCode.str)))
       THEN ErrorMapLookup(ToLowerCase(errorCode.str))
       ELSE JNum(500)

\* `${statusCode}`
StatusCodeText(statusCode) ==
  IF IsNum(statusCode) THEN NumToStr(statusCode.num) ELSE statusCode.inherited

\* path.join(this.errorDirectory, `${statusCode}.json`)
ErrorFilePath(statusCode) == <<GlobalErrorsName, StatusCodeText(statusCode) \o DotJson>>

\* JSON.parse(JSON.stringify(v).replace(/\{path\}/g, requestPath)
\*                              .replace(/\{method\}/g, method))
\* on the strings of v (the keys of the model's payloads hold no placeholder)
RECURSIVE Interpolate(_, _, _)
Interpolate(v, requestPath, method) ==
  IF IsStr(v)
  THEN JStr(ReplaceAll(ReplaceAll(v.str, PathPlaceholder, requestPath), MethodPlaceholder, method))
  ELSE IF IsObj(v)
       THEN JObj([k \in DOMAIN v.obj |-> Interpolate(v.obj[k], requestPath, method)])
       ELSE v

\* v || d
OrElse(v, d) == IF Truthy(v) THEN v ELSE d

\* a response; held tells whether the call waited this.delay before returning
Response(body, statusCode, headers, held) ==
  [body |-> body, statusCode |-> statusCode, headers |-> headers, held |-> held]

\* defaultErrors[statusCode] || defaultErrors[500]
DefaultBodyFor(statusCode, requestPath, method) ==
  IF IsNum(statusCode) /\ statusCode.num \in DOMAIN DefaultErrors(requestPath, method)
  THEN DefaultErrors(requestPath, method)[statusCode.num]
  ELSE DefaultErrors(requestPath, method)[500]

\* a mutant: the fallback answers a code it has no body for as a 500
DefaultErrorResponseAs500(statusCode, requestPath, method) ==
  IF IsNum(statusCode) /\ statusCode.num \in DOMAIN DefaultErrors(requestPath, method)
  THEN Response(DefaultErrors(requestPath, method)[statusCode.num],
                statusCode, JObj(EmptyMap), FALSE)
  ELSE Response(DefaultErrors(requestPath, method)[500], JNum(500), JObj(EmptyMap), FALSE)

\* the fallback at the end of getErrorResponse
DefaultErrorResponse(statusCode, requestPath, method) ==
  Response(DefaultBodyFor(statusCode, requestPath, method), statusCode, JObj(EmptyMap), FALSE)

GetErrorResponse(errorCode, requestPath, method) ==
  LET statusCode == StatusCodeOf(errorCode)
      errorFilePath == ErrorFilePath(statusCode)
      errorTemplate == ReadJson(errorFilePath)
  IN IF ExistsSync(errorFilePath) /\ errorTemplate # Throw
     THEN Response(Interpolate(errorTemplate, requestPath, method),
                   statusCode,
                   OrElse(Get(errorTemplate.obj, "_headers"), JObj(EmptyMap)),
                   delay > 0)
     ELSE DefaultErrorResponse(statusCode, requestPath, method)

(***************************************************************************)
(* Directory listings.  fs.readdirSync returns a directory's entries in an *)
(* order the file system chooses and repeats for an unchanged directory;   *)
(* the model lists entries in the byte order of their names.               *)
(***************************************************************************)
\* the printable ASCII characters that file names of the model may hold, in
\* code order
Ascii ==
  <<" ", "!", "#", "$", "%", "&", "'", "(", ")", "*", "+", ",", "-", ".", "/", "0",
    "1", "2", "3", "4", "5", "6", "7", "8", "9", ":", ";", "<", "=", ">", "?", "@", "A",
    "B", "C", "D", "E", "F", "G", "H", "I", "J", "K", "L", "M", "N", "O", "P", "Q", "R",
    "S", "T", "U", "V", "W", "X", "Y", "Z", "[", "]", "^", "_", "a", "b", "c",
    "d", "e", "f", "g", "h", "i", "j", "k", "l", "m", "n", "o", "p", "q", "r", "s", "t",
    "u", "v", "w", "x", "y", "z", "{", "|", "}", "~">>

CharCode(ch) == IndexOf(Ascii, ch)

\* a sorts before b in byte order
RECURSIVE NameBefore(_, _)
NameBefore(a, b) ==
  IF a = <<>> THEN b # <<>>
  ELSE IF b = <<>> THEN FALSE
  ELSE IF a[1] = b[1] THEN NameBefore(Tail(a), Tail(b))
  ELSE CharCode(a[1]) < CharCode(b[1])

RECURSIVE SortNames(_)
SortNames(names) ==
  IF names = {} THEN <<>>
  ELSE LET first == CHOOSE n \in names : \A m \in names \ {n} : NameBefore(n, m)
       IN <<first>> \o SortNames(names \ {first})

\* the names of the entries of directory dir
Entries(dir) ==
  {f[Len(dir) + 1] : f \in {g \in DOMAIN disk : Len(g) > Len(dir) /\ SubSeq(g, 1, Len(dir)) = dir}}

\* fs.readdirSync(dir) of a directory: the entries in listing order (of a
\* file it throws ENOTDIR, which the callers model by testing IsFile)
ReaddirSync(dir) == SortNames(Entries(dir))

(***************************************************************************)
(* getAllMockPaths, findMockWithParams, findMock                           *)
(***************************************************************************)
\* walkDir(currentPath): the .json files under currentPath, depth first in
\* listing order, the directories named _errors and errors left out
RECURSIVE WalkDir(_)
RECURSIVE WalkEntries(_, _, _)
WalkEntries(currentPath, files, i) ==
  IF i > Len(files) THEN <<>>
  ELSE LET filePath == Append(currentPath, files[i])
           found == IF IsDirectory(filePath)
                    THEN IF files[i] # GlobalErrorsName /\ files[i] # ErrorsName
                         THEN WalkDir(filePath)
                         ELSE <<>>
                    ELSE IF EndsWith(files[i], DotJson) THEN <<filePath>> ELSE <<>>
       IN found \o WalkEntries(currentPath, files, i + 1)

WalkDir(currentPath) ==
  IF ~ExistsSync(currentPath) THEN <<>>
  ELSE WalkEntries(currentPath, ReaddirSync(currentPath), 1)

GetAllMockPaths == WalkDir(<<>>)

\* requestPath.endsWith('/') ? requestPath.slice(0, -1) : requestPath
TrimmedPath(requestPath) ==
  IF EndsWith(requestPath, Slash) THEN SubSeq(requestPath, 1, Len(requestPath) - 1)
  ELSE requestPath

\* trimmedPath.startsWith('/') ? trimmedPath : '/' + trimmedPath
NormalizedPath(requestPath) ==
  IF StartsWith(TrimmedPath(requestPath), Slash) THEN TrimmedPath(requestPath)
  ELSE Slash \o TrimmedPath(requestPath)

\* path.join(this.mockDirectory, p), relative to mockDirectory, for a p
\* without . and .. segments
PathJoin(p) == FilterBoolean(SplitSlash(p))

\* path.basename(p)
Basename(p) == IF PathJoin(p) = <<>> THEN <<>> ELSE PathJoin(p)[Len(PathJoin(p))]

\* exactPath + '.json': path.join keeps a trailing separator, so the
\* extension lands on the last segment, or on an empty name after a slash
LegacyFilePath(normalizedPath) ==
  IF EndsWith(normalizedPath, Slash) \/ PathJoin(normalizedPath) = <<>>
  THEN Append(PathJoin(normalizedPath), DotJson)
  ELSE Append(SubSeq(PathJoin(normalizedPath), 1, Len(PathJoin(normalizedPath)) - 1),
              Basename(normalizedPath) \o DotJson)

\* '/' for a file of the root, else '/' + the file's directory
MockDirPath(mockPath) ==
  Slash \o JoinSlash(SubSeq(mockPath, 1, Len(mockPath) - 1))

\* the filter at the head of findMockWithParams's loop
FileNameCompatible(filename, requestPath, method) ==
  \/ filename = method \o DotJson
  \/ filename = IndexJson
  \/ filename = Basename(requestPath) \o DotJson

RECURSIVE FirstMatch(_, _, _, _)
FirstMatch(mockPaths, i, requestPath, method) ==
  IF i > Len(mockPaths) THEN Null
  ELSE IF /\ FileNameCompatible(mockPaths[i][Len(mockPaths[i])], requestPath, method)
          /\ ParsePathParams(requestPath, MockDirPath(mockPaths[i])) # Null
       THEN JStr(mockPaths[i])
       ELSE FirstMatch(mockPaths, i + 1, requestPath, method)

\* a found file is returned as JStr(its path), no file as Null
FindMockWithParams(requestPath, method) == FirstMatch(GetAllMockPaths, 1, requestPath, method)

\* a mutant: the index file is looked for before the legacy file
FindMockIndexBeforeLegacy(requestPath, method) ==
  LET normalizedPath == NormalizedPath(requestPath)
      exactPath == PathJoin(normalizedPath)
  IN IF ExistsSync(Append(exactPath, method \o DotJson))
     THEN JStr(Append(exactPath, method \o DotJson))
     ELSE IF ExistsSync(Append(exactPath, IndexJson))
          THEN JStr(Append(exactPath, IndexJson))
          ELSE IF ExistsSync(LegacyFilePath(normalizedPath))
               THEN JStr(LegacyFilePath(normalizedPath))
               ELSE FindMockWithParams(normalizedPath, method)

FindMock(requestPath, method) ==
  LET normalizedPath == NormalizedPath(requestPath)
      exactPath == PathJoin(normalizedPath)
  IN IF ExistsSync(Append(exactPath, method \o DotJson))
     THEN JStr(Append(exactPath, method \o DotJson))
     ELSE IF ExistsSync(LegacyFilePath(normalizedPath))
          THEN JStr(LegacyFilePath(normalizedPath))
          ELSE IF ExistsSync(Append(exactPath, IndexJson))
               THEN JStr(Append(exactPath, IndexJson))
               ELSE FindMockWithParams(normalizedPath, method)

(***************************************************************************)
(* checkForSpecificError                                                   *)
(***************************************************************************)
\* a mutant: the directory named by the request segment is taken whenever it
\* exists
RECURSIVE DescendLiteralFirst(_, _, _)
DescendLiteralFirst(errorDir, pathParts, i) ==
  IF i > Len(pathParts) THEN JStr(errorDir)
  ELSE IF IsFile(errorDir) THEN Throw
  ELSE LET files == IF ExistsSync(errorDir) THEN ReaddirSync(errorDir) ELSE <<>>
           dynamicFolders == SelectSeq(files, IsParamSegment)
       IN DescendLiteralFirst(Append(errorDir,
                                     IF dynamicFolders # <<>> /\ ~ExistsSync(Append(errorDir, pathParts[i]))
                                     THEN dynamicFolders[1] ELSE pathParts[i]),
                              pathParts, i + 1)

\* the loop over pathParts: the directory reached from errorDir along
\* pathParts[i..], as JStr(path); Throw when readdirSync meets a file
RECURSIVE DescendErrorDir(_, _, _)
DescendErrorDir(errorDir, pathParts, i) ==
  IF i > Len(pathParts) THEN JStr(errorDir)
  ELSE IF IsFile(errorDir) THEN Throw
  ELSE LET files == IF ExistsSync(errorDir) THEN ReaddirSync(errorDir) ELSE <<>>
           dynamicFolders == SelectSeq(files, IsParamSegment)
       IN DescendErrorDir(Append(errorDir, IF dynamicFolders # <<>> THEN dynamicFolders[1]
                                           ELSE pathParts[i]),
                          pathParts, i + 1)

\* readdirSync(errorsDir).filter(f => f.startsWith(`${method}_`) && f.endsWith('.json'))
ErrorFiles(errorsDir, method) ==
  SelectSeq(ReaddirSync(errorsDir),
            LAMBDA f : StartsWith(f, method \o Underscore) /\ EndsWith(f, DotJson))

\* errorFile.substring(method.length + 1, errorFile.length - 5)
ScenarioOf(errorFile, method) == Substring(errorFile, Len(method) + 1, Len(errorFile) - 5)

\* the response built from a scenario's payload
ScenarioResponse(errorData) ==
  Response(JObj(Delete(Delete(Delete(errorData, "_statusCode"), "_headers"), "_conditions")),
           OrElse(Get(errorData, "_statusCode"), JNum(400)),
           OrElse(Get(errorData, "_headers"), JObj(EmptyMap)),
           FALSE)

\* the loop over errorFiles, from errorFiles[i] on
RECURSIVE FirstApplicable(_, _, _, _, _, _, _)
FirstApplicable(errorsDir, errorFiles, i, method, body, query, headers) ==
  IF i > Len(errorFiles) THEN Null
  ELSE LET errorData == ReadJson(Append(errorsDir, errorFiles[i]))
           applies == ErrorApplies(errorData.obj, ScenarioOf(errorFiles[i], method),
                                   body, query, headers)
       IN IF errorData = Throw THEN Throw
          ELSE IF applies = Throw THEN Throw
          ELSE IF applies.bool THEN ScenarioResponse(errorData.obj)
          ELSE FirstApplicable(errorsDir, errorFiles, i + 1, method, body, query, headers)

\* Null when no scenario fires, the scenario's response, or Throw
CheckForSpecificError(requestPath, method, body, query, headers) ==
  LET pathParts == FilterBoolean(SplitSlash(NormalizedPath(requestPath)))
      errorDir == DescendErrorDir(<<>>, pathParts, 1)
      errorsDir == Append(errorDir.str, ErrorsName)
  IN IF errorDir = Throw THEN Throw
     ELSE IF ~ExistsSync(errorsDir) THEN Null
     ELSE IF IsFile(errorsDir) THEN Throw
     ELSE FirstApplicable(errorsDir, ErrorFiles(errorsDir, method), 1,
                          method, body, query, headers)

(***************************************************************************)
(* getMockResponse                                                         *)
(***************************************************************************)
\* const errorCodes = [400, 401, 403, 404, 500]
ErrorCodes == <<400, 401, 403, 404, 500>>

\* a mutant: the sample is compared with <= and the rate is not tested
InjectsErrorInclusive(sample) == sample <= errorRate

\* this.errorRate > 0 && Math.random() < this.errorRate, for a sample of
\* Math.random() given in percent like errorRate
InjectsError(sample) == errorRate > 0 /\ sample < errorRate

\* the try block of getMockResponse on the parsed rule file
RuleResponse(payload, method, requestBody) ==
  LET statusCode == OrElse(Get(payload, "_statusCode"), JNum(200))
      headers == OrElse(Get(payload, "_headers"), JObj(EmptyMap))
      response == Delete(Delete(payload, "_statusCode"), "_headers")
  IN Response(
       JObj(IF Truthy(requestBody) /\ method \in {POST, PUT}
            THEN IF Get(response, "_echo") = JBool(TRUE)
                 THEN Spread(Delete(response, "_echo"), requestBody.obj)
                 ELSE IF Get(response, "_merge") = JBool(TRUE)
                      THEN Spread(Delete(response, "_merge"), requestBody.obj)
                      ELSE response
            ELSE response),
       statusCode, headers, delay > 0)

\* what the promise of getMockResponse settles to: a response, tagged with
\* the branch that produced it, or a rejection
Outcome(via, response) == [via |-> via, response |-> response]
Rejected == [rejected |-> TRUE]

\* a mutant: the forced error is looked at after the error scenarios
GetMockResponseScenarioFirst(requestPath, method, requestBody, query, headers, forceError, sample, pick) ==
  LET specificError == CheckForSpecificError(requestPath, method, requestBody, query, headers)
  IN IF specificError = Throw THEN Rejected
     ELSE IF specificError # Null THEN Outcome("scenario", specificError)
     ELSE IF Truthy(forceError)
          THEN Outcome("forced", GetErrorResponse(forceError, requestPath, method))
          ELSE Outcome("notfound", GetErrorResponse(JNum(404), requestPath, method))

\* sample and pick are the two values Math.random() returns when asked: the
\* first in percent, the second as Math.floor(Math.random() * 5)
GetMockResponse(requestPath, method, requestBody, query, headers, forceError, sample, pick) ==
  IF Truthy(forceError)
  THEN Outcome("forced", GetErrorResponse(forceError, requestPath, method))
  ELSE LET specificError == CheckForSpecificError(requestPath, method, requestBody, query, headers)
           mockPath == FindMock(requestPath, method)
       IN IF specificError = Throw THEN Rejected
          ELSE IF specificError # Null THEN Outcome("scenario", specificError)
          ELSE IF InjectsError(sample)
               THEN Outcome("random",
                            GetErrorResponse(JNum(ErrorCodes[pick + 1]), requestPath, method))
          ELSE IF mockPath = Null
               THEN Outcome("notfound", GetErrorResponse(JNum(404), requestPath, method))
          ELSE IF ReadJson(mockPath.str) = Throw
               THEN Outcome("loaderror", GetErrorResponse(JNum(500), requestPath, method))
          ELSE Outcome("rule", RuleResponse(ReadJson(mockPath.str).obj, method, requestBody))

(***************************************************************************)
(* Values shared by every specification.                                   *)
(***************************************************************************)
Pending == [pending |-> TRUE]     \* the call has not returned yet
EmptyDisk == <<>>

(***************************************************************************)
(* SpecMatch: parsePathParams on every request path and template of up to  *)
(* MaxSegs segments.                                                       *)
(***************************************************************************)
MatchSegs == {<<"a">>, <<"A">>, <<"[", "p", "]">>, <<"[", "q", "]">>, <<"[", "]">>}

MatchPaths == {Slash \o JoinSlash(segs) : segs \in SeqsUpTo(MatchSegs, MaxSegs)}

InitMatch ==
  /\ disk = EmptyDisk
  /\ delay = 0
  /\ errorRate = 0
  /\ nextErrorCode = Null
  /\ errorForPath = Null
  /\ call \in [fn : {"parsePathParams"}, requestPath : MatchPaths, mockDirPath : MatchPaths]
  /\ ret = Pending

CallParsePathParams ==
  /\ call.fn = "parsePathParams"
  /\ ret = Pending
  /\ ret' = ParsePathParams(call.requestPath, call.mockDirPath)
  /\ UNCHANGED <<disk, delay, errorRate, nextErrorCode, errorForPath, call>>

SpecMatch == InitMatch /\ [][CallParsePathParams]_vars

\* the segments of the call's two arguments
CallRequestParts == FilterBoolean(SplitSlash(call.requestPath))
CallDirParts == FilterBoolean(SplitSlash(call.mockDirPath))

CallStructuralMatch ==
  /\ Len(CallDirParts) = Len(CallRequestParts)
  /\ \A i \in 1..Len(CallDirParts) :
       IsParamSegment(CallDirParts[i]) \/ CallDirParts[i] = CallRequestParts[i]

CallParamPositions == {i \in 1..Len(CallDirParts) : IsParamSegment(CallDirParts[i])}

EmailA == <<"a", "@", "b", ".", "c", "o", "m">>
EmailX == <<"x", "@", "y", ".", "c", "o", "m">>
EmailExisting == <<"e", "x", "i", "s", "t", "i", "n", "g", "@", "b", ".", "c", "o", "m">>
rate_limited == <<"r", "a", "t", "e", "_", "l", "i", "m", "i", "t", "e", "d">>

CondBodies == {Undefined,
               JObj(MapOf({<<"email", JStr(EmailA)>>})),
               JObj(MapOf({<<"email", JStr(EmailA)>>, <<"plan", JStr(<<"p", "r", "o">>)>>}))}
CondQueries == {Undefined, JObj(MapOf({<<"debug", JStr(<<"1">>)>>}))}
CondHeaders == {Undefined, JObj(MapOf({<<"role", JStr(guest)>>}))}

\* a condition holds only the parts it declares
Condition(b, q, h) ==
  JObj(MapOf({p \in {<<"body", b>>, <<"query", q>>, <<"headers", h>>} : p[2] # Undefined}))

Conditions == {Condition(b, q, h) : b \in CondBodies, q \in CondQueries, h \in CondHeaders}

CondRequestBodies == {Null,
                      JObj(EmptyMap),
                      JObj(MapOf({<<"email", JStr(EmailA)>>})),
                      JObj(MapOf({<<"email", JStr(EmailX)>>})),
                      JObj(MapOf({<<"email", JStr(EmailA)>>, <<"plan", JStr(<<"p", "r", "o">>)>>}))}
CondRequestQueries == {Null, JObj(EmptyMap), JObj(MapOf({<<"debug", JStr(<<"1">>)>>}))}
CondRequestHeaders == {Null, JObj(EmptyMap), JObj(MapOf({<<"role", JStr(guest)>>}))}

ScenarioNames == {existing_email, invalid_input, unauthorized, forbidden, rate_limited}
ScenarioBodies == {Null,
                   JObj(EmptyMap),
                   JObj(MapOf({<<"email", JStr(EmailExisting)>>})),
                   JObj(MapOf({<<"email", JStr(EmailA)>>, <<"name", JStr(<<>>)>>})),
                   JObj(MapOf({<<"password", JStr(<<"1", "2", "3", "4", "5">>)>>})),
                   JObj(MapOf({<<"password", JStr(<<"1", "2", "3", "4", "5", "6">>)>>}))}
ScenarioHeaders == {Null,
                    JObj(EmptyMap),
                    JObj(MapOf({<<"authorization", JStr(BearerPrefix \o <<"t">>)>>})),
                    JObj(MapOf({<<"authorization", JStr(<<"B", "a", "s", "i", "c", " ", "t">>)>>,
                                <<"role", JStr(guest)>>}))}

ErrorPayload == MapOf({<<"error", JStr(<<"E">>)>>})

CondCalls ==
  [fn : {"errorApplies"},
   errorData : {Put(ErrorPayload, "_conditions", JArr(cs)) : cs \in SeqsUpTo(Conditions, MaxConds)},
   scenario : {rate_limited},
   body : CondRequestBodies, query : CondRequestQueries, headers : CondRequestHeaders]

ScenarioCalls ==
  [fn : {"errorApplies"},
   errorData : {ErrorPayload},
   scenario : ScenarioNames,
   body : ScenarioBodies, query : {JObj(EmptyMap)}, headers : ScenarioHeaders]

InitCond ==
  /\ disk = EmptyDisk
  /\ delay = 0
  /\ errorRate = 0
  /\ nextErrorCode = Null
  /\ errorForPath = Null
  /\ call \in CondCalls \cup ScenarioCalls
  /\ ret = Pending

CallErrorApplies ==
  /\ call.fn = "errorApplies"
  /\ ret = Pending
  /\ ret' = ErrorApplies(call.errorData, call.scenario, call.body, call.query, call.headers)
  /\ UNCHANGED <<disk, delay, errorRate, nextErrorCode, errorForPath, call>>

SpecCond == InitCond /\ [][CallErrorApplies]_vars

\* the request map a condition's part is checked against
CallRequestMap(part) ==
  CASE part = "body" -> call.body
    [] part = "query" -> call.query
    [] part = "headers" -> call.headers

\* every key check the condition declares is satisfied by exact equality;
\* a check against a request map that is missing is not satisfied
AllChecksSatisfied(condition) ==
  \A part \in DOMAIN condition.obj :
    \A key \in DOMAIN condition.obj[part].obj :
      /\ IsObj(CallRequestMap(part))
      /\ key \in DOMAIN CallRequestMap(part).obj
      /\ CallRequestMap(part).obj[key] = condition.obj[part].obj[key]

CallHasConditions == call.fn = "errorApplies" /\ "_conditions" \in DOMAIN call.errorData

\* C2: a scenario with an explicit condition set fires if and only if some
\* condition of the set has all of its declared body, query and header key
\* checks satisfied, a check against a missing request map being unsatisfied.
C2_FiresIffSomeConditionHolds ==
  (CallHasConditions /\ ret # Pending) =>
    (ret = JBool(TRUE)) <=>
      (\E i \in 1..Len(call.errorData["_conditions"].arr) :
         AllChecksSatisfied(call.errorData["_conditions"].arr[i]))

(***************************************************************************)
(* SpecErr: getErrorResponse on numeric and named error codes, with and    *)
(* without templates in the _errors directory.                             *)
(***************************************************************************)
DelayMs == 50     \* a nonzero --delay

Template(name) ==
  JsonFile(MapOf({<<"error", JStr(name)>>,
                  <<"detail", JStr(MethodPlaceholder \o <<" ">> \o PathPlaceholder)>>,
                  <<"_headers", JObj(MapOf({<<"x-mock", JStr(<<"1">>)>>}))>>}))

\* every way to choose, for each path of a set, one of its contents or none
DisksOver(paths, contents) ==
  UNION {[chosen -> contents] : chosen \in SUBSET paths}

ErrDisks ==
  DisksOver({ErrorFilePath(JNum(404)), ErrorFilePath(JNum(500)), ErrorFilePath(JNum(418))},
            {Template(<<"T">>), Malformed})

ErrCodes == {JNum(404), JNum(500),
             JStr(<<"4", "0", "4">>), JStr(<<"4", "1", "8">>), JStr(<<"5", "9", "9">>),
             JStr(<<"5", "0", "3", "x">>),
             JStr(notfound), JStr(<<"N", "o", "t", "F", "o", "u", "n", "d">>),
             JStr(<<"t", "e", "a", "p", "o", "t">>), JStr(constructor)}

ErrPaths == {<<"/", "w", "/", "5">>}
ErrMethods == {GET, <<"D", "E", "L", "E", "T", "E">>}

InitErr ==
  /\ disk \in ErrDisks
  /\ delay \in {0, DelayMs}
  /\ errorRate = 0
  /\ nextErrorCode = Null
  /\ errorForPath = Null
  /\ call \in [fn : {"getErrorResponse"}, errorCode : ErrCodes,
               requestPath : ErrPaths, method : ErrMethods]
  /\ ret = Pending

CallGetErrorResponse ==
  /\ call.fn = "getErrorResponse"
  /\ ret = Pending
  /\ ret' = GetErrorResponse(call.errorCode, call.requestPath, call.method)
  /\ UNCHANGED <<disk, delay, errorRate, nextErrorCode, errorForPath, call>>

SpecErr == InitErr /\ [][CallGetErrorResponse]_vars

Returned(fn) == call.fn = fn /\ ret # Pending

\* the call's code is a number (or numeric text) N with no file
\* _errors/N.json and no entry in defaultErrors
CallUnknownNumber ==
  /\ ParseInt(call.errorCode) # NaN
  /\ ~ExistsSync(<<GlobalErrorsName, NumToStr(ParseInt(call.errorCode).num) \o DotJson>>)
  /\ ParseInt(call.errorCode).num \notin {400, 401, 403, 404, 409, 429, 500, 503}

\* the call's code is a keyword that names no property of errorMap
CallUnknownKeyword ==
  /\ ParseInt(call.errorCode) = NaN
  /\ ToLowerCase(call.errorCode.str) \notin
       {badrequest, unauthorized, forbidden, notfound, conflict, servererror,
        constructor, proto}

\* C10 as stated: an unknown status code and an unknown keyword both get the
\* 500 error response: status code 500 and the 500 body.
C10_Original ==
  (Returned("getErrorResponse") /\ (CallUnknownNumber \/ CallUnknownKeyword)) =>
    /\ ret.statusCode = JNum(500)
    /\ ret = GetErrorResponse(JNum(500), call.requestPath, call.method)

\* C10 as amended: an unknown status code gets the built-in 500 body and no
\* headers but keeps the requested status code; an unknown keyword is
\* answered exactly as code 500 is.
C10_UnknownCodeKeepsStatus ==
  Returned("getErrorResponse") =>
    /\ CallUnknownNumber =>
         /\ ret.statusCode = ParseInt(call.errorCode)
         /\ ret.body = JObj(MapOf({<<"error", JStr(Name500)>>, <<"message", JStr(Msg500)>>}))
         /\ ret.headers = JObj(EmptyMap)
    /\ CallUnknownKeyword =>
         /\ ret.statusCode = JNum(500)
         /\ ret = GetErrorResponse(JNum(500), call.requestPath, call.method)

\* an unknown numeric code was answered, with a 500 template on disk
C10_Witness ==
  /\ Returned("getErrorResponse")
  /\ CallUnknownNumber
  /\ IsFile(ErrorFilePath(JNum(500)))
  /\ disk[ErrorFilePath(JNum(500))] # Malformed
  /\ ret.statusCode = JNum(418)

(***************************************************************************)
(* SpecResolve: getMockResponse on rule trees that hold a literal rule, a  *)
(* legacy rule, a parametrized rule, error scenarios and an error          *)
(* template.                                                               *)
(***************************************************************************)
U == <<"u">>
IdDir == <<"[", "i", "d", "]">>

PlainRule ==
  JsonFile(MapOf({<<"a", JNum(1)>>, <<"b", JNum(2)>>, <<"_statusCode", JNum(201)>>,
                  <<"_headers", JObj(MapOf({<<"x-rule", JStr(<<"1">>)>>}))>>}))
EchoRule == JsonFile(MapOf({<<"a", JNum(1)>>, <<"b", JNum(2)>>, <<"_echo", JBool(TRUE)>>}))
MergeRule == JsonFile(MapOf({<<"a", JNum(1)>>, <<"b", JNum(2)>>, <<"_merge", JBool(TRUE)>>}))
EchoMergeRule ==
  JsonFile(MapOf({<<"a", JNum(1)>>, <<"b", JNum(2)>>,
                  <<"_echo", JBool(TRUE)>>, <<"_merge", JBool(TRUE)>>}))
ParamRule == JsonFile(MapOf({<<"id", JNum(5)>>}))

\* fires by the built-in predicate of its name: headers.role === 'guest'
ForbiddenScenario ==
  JsonFile(MapOf({<<"error", JStr(<<"F">>)>>, <<"_statusCode", JNum(403)>>}))
\* fires by its condition list: query.fail === '1'
GoneScenario ==
  JsonFile(MapOf({<<"error", JStr(<<"G">>)>>,
                  <<"_conditions",
                    JArr(<<JObj(MapOf({<<"query", JObj(MapOf({<<"fail", JStr(<<"1">>)>>}))>>}))>>)>>}))

LiteralRuleFile == <<U, GET \o DotJson>>
LegacyRuleFile == <<U \o DotJson>>
ParamRuleFile == <<U, IdDir, GET \o DotJson>>
ParamScenarioFile == <<IdDir, ErrorsName, GET \o Underscore \o forbidden \o DotJson>>
LiteralScenarioFile == <<U, ErrorsName, GET \o Underscore \o <<"g", "o", "n", "e">> \o DotJson>>

\* every disk that holds, for each of the given files, one of its contents
\* or no such file
RECURSIVE DisksWith(_)
DisksWith(choices) ==
  IF choices = <<>> THEN {EmptyDisk}
  ELSE LET rest == DisksWith(Tail(choices))
           file == choices[1][1]
       IN rest \cup {(file :> content) @@ d : content \in choices[1][2], d \in rest}

ResolveDisks ==
  DisksWith(<< <<LiteralRuleFile, {PlainRule, EchoRule, Malformed}>>,
               <<LegacyRuleFile, {EchoRule, MergeRule, EchoMergeRule}>>,
               <<ParamRuleFile, {ParamRule}>>,
               <<ParamScenarioFile, {ForbiddenScenario}>>,
               <<LiteralScenarioFile, {GoneScenario, Malformed}>>,
               <<ErrorFilePath(JNum(404)), {Template(Name404)}>> >>)

ResolvePaths == {<<"/", "u">>, <<"u", "/", "5", "/">>}
ResolveMethods == {GET, POST, PUT}
ResolveBodies == {Null, JObj(MapOf({<<"b", JNum(9)>>, <<"c", JNum(3)>>}))}
\* the query and the headers of a request
ResolveTriggers ==
  {<<JObj(EmptyMap), JObj(EmptyMap)>>,
   <<JObj(MapOf({<<"fail", JStr(<<"1">>)>>})), JObj(EmptyMap)>>,
   <<JObj(EmptyMap), JObj(MapOf({<<"role", JStr(guest)>>}))>>}
ResolveForced == {Undefined, JStr(<<"4", "0", "4">>)}
\* errorRate with the two values of Math.random()
ResolveRandom == {<<0, 0, 0>>, <<50, 0, 3>>, <<50, 99, 1>>, <<100, 99, 4>>}

InitResolve ==
  /\ disk \in ResolveDisks
  /\ delay = 0
  /\ nextErrorCode = Null
  /\ errorForPath = Null
  /\ \E trigger \in ResolveTriggers, random \in ResolveRandom :
       /\ errorRate = random[1]
       /\ call \in [fn : {"getMockResponse"}, requestPath : ResolvePaths,
                    method : ResolveMethods, requestBody : ResolveBodies,
                    query : {trigger[1]}, headers : {trigger[2]},
                    forceError : ResolveForced,
                    sample : {random[2]}, pick : {random[3]}]
  /\ ret = Pending

CallGetMockResponse ==
  /\ call.fn = "getMockResponse"
  /\ ret = Pending
  /\ ret' = GetMockResponse(call.requestPath, call.method, call.requestBody, call.query,
                            call.headers, call.forceError, call.sample, call.pick)
  /\ UNCHANGED <<disk, delay, errorRate, nextErrorCode, errorForPath, call>>

SpecResolve == InitResolve /\ [][CallGetMockResponse]_vars

\* the keys that are directives of a rule payload
DirectiveKeys == {"_statusCode", "_headers", "_echo", "_merge", "_conditions"}

WithoutDirectives(payload) == [k \in (DOMAIN payload) \ DirectiveKeys |-> payload[k]]

\* the segments of the call's literal path
CallExactPath == PathJoin(NormalizedPath(call.requestPath))

\* the rule files at exactly the call's path: method-specific, legacy, index
CallExactFiles ==
  <<Append(CallExactPath, call.method \o DotJson),
    LegacyFilePath(NormalizedPath(call.requestPath)),
    Append(CallExactPath, IndexJson)>>

CallHasExactRule == \E i \in 1..3 : IsFile(CallExactFiles[i])

\* the first of them that exists
CallExactRule ==
  CallExactFiles[CHOOSE i \in 1..3 : IsFile(CallExactFiles[i]) /\ \A j \in 1..(i - 1) : ~IsFile(CallExactFiles[j])]

Unforced == Returned("getMockResponse") /\ ~Truthy(call.forceError)

\* C1: a request whose literal path has an exact rule file gets that file's
\* payload, directives stripped, with the file's status (default 200),
\* whatever parametrized directories exist elsewhere.  Stated for the
\* requests nothing but a parametrized directory could disturb: no random
\* injection, a well-formed rule that declares no echo or merge, and no
\* errors directory at the literal path.
C1_ExactRuleWins ==
  ( /\ Unforced
    /\ errorRate = 0
    /\ CallHasExactRule
    /\ disk[CallExactRule] # Malformed
    /\ DOMAIN disk[CallExactRule].json \cap {"_echo", "_merge"} = {}
    /\ ~ExistsSync(Append(CallExactPath, ErrorsName)) )
  => /\ ret # Rejected
     /\ ret.response.body = JObj(WithoutDirectives(disk[CallExactRule].json))
     /\ ret.response.statusCode =
          (IF "_statusCode" \in DOMAIN disk[CallExactRule].json
           THEN disk[CallExactRule].json["_statusCode"] ELSE JNum(200))

\* C3: the body of every response of getMockResponse holds none of the
\* directive keys _statusCode, _headers, _echo, _merge, _conditions.
C3_NoDirectiveInBody ==
  (Returned("getMockResponse") /\ ret # Rejected) =>
    (IsObj(ret.response.body) => DOMAIN ret.response.body.obj \cap DirectiveKeys = {})

\* C5: getMockResponse never rejects: every call returns a response.
C5_NeverRejects == Returned("getMockResponse") => ret # Rejected

\* C6: with forceError set, the response is the synthesized error for that
\* code, whatever scenario would fire, whatever errorRate is and whether or
\* not a rule exists.
C6_ForcedErrorBypasses ==
  (Returned("getMockResponse") /\ Truthy(call.forceError)) =>
    ret = Outcome("forced", GetErrorResponse(call.forceError, call.requestPath, call.method))

\* a forced call for which a scenario fires, injection is certain and a
\* rule exists
C6_Witness ==
  /\ Returned("getMockResponse")
  /\ Truthy(call.forceError)
  /\ errorRate = 100
  /\ CheckForSpecificError(call.requestPath, call.method, call.requestBody,
                           call.query, call.headers) \notin {Null, Throw}
  /\ CallHasExactRule
  /\ ret.response.statusCode = JNum(404)

\* the payload of the rule file the call was answered from
CallRulePayload == ReadJson(FindMock(call.requestPath, call.method).str).obj

\* C8: for POST or PUT with a request body and a payload that declares echo
\* or merge, the body is the payload, directives removed, overlaid with the
\* request body; for another method the request body changes nothing.
C8_EchoMergeOverlay ==
  (Returned("getMockResponse") /\ ret # Rejected /\ ret.via = "rule") =>
    IF call.method \in {POST, PUT}
    THEN ( /\ call.requestBody # Null
           /\ \/ Get(CallRulePayload, "_echo") = JBool(TRUE)
              \/ Get(CallRulePayload, "_merge") = JBool(TRUE) )
         => ret.response.body =
              JObj(Spread(WithoutDirectives(CallRulePayload), call.requestBody.obj))
    ELSE ret.response.body = RuleResponse(CallRulePayload, call.method, Null).body

\* C9: with errorRate 0 no response is a randomly injected error, and an
\* existing rule answers when nothing else intervenes; with errorRate 1
\* every call that reaches the injection step returns one of the five codes.
C9_InjectionRate ==
  (Returned("getMockResponse") /\ ret # Rejected) =>
    /\ errorRate = 0 =>
         /\ ret.via # "random"
         /\ (FindMock(call.requestPath, call.method) # Null /\ ret.via \notin {"forced", "scenario"})
            => ret.via \in {"rule", "loaderror"}
    /\ (errorRate = 100 /\ ret.via \notin {"forced", "scenario"}) =>
         /\ ret.via = "random"
         /\ ret.response.statusCode \in {JNum(400), JNum(401), JNum(403), JNum(404), JNum(500)}

\* at rate 1 an error was injected although a rule exists for the request
C9_Witness ==
  /\ Returned("getMockResponse")
  /\ errorRate = 100
  /\ ret # Rejected
  /\ ret.via = "random"
  /\ FindMock(call.requestPath, call.method) # Null

(***************************************************************************)
(* SpecServer: the command-line server.  The operator types `error` lines  *)
(* and requests arrive; each request runs the forced-error middleware and  *)
(* then the mock middleware.  The field `pending` of a request's call      *)
(* records the directive the request found on arrival.                     *)
(***************************************************************************)
error == <<"e", "r", "r", "o", "r">>
Code404 == <<"4", "0", "4">>
Code500 == <<"5", "0", "0">>
SlashU == <<"/", "u">>
SlashV == <<"/", "v">>

\* a mutant: the directive is applied whatever the request's path
DirectiveAppliesAnyPath(path) == Truthy(nextErrorCode)

\* nextErrorCode && (!errorForPath || req.path.includes(errorForPath))
DirectiveApplies(path) ==
  /\ Truthy(nextErrorCode)
  /\ ~Truthy(errorForPath) \/ Includes(path, errorForPath.str)

\* the body the mock middleware sends when getMockResponse rejects (its
\* message and details texts are left out)
ServerErrorBody ==
  JObj(MapOf({<<"error", JStr(<<"S", "e", "r", "v", "e", "r", " ", "E", "r", "r", "o", "r">>)>>}))

\* the mock middleware: what it sends for a request
Middleware(path, method, body, query, headers, forceError) ==
  LET response == GetMockResponse(path, method, body, query, headers, forceError, 0, 0)
  IN IF response = Rejected
     THEN Outcome("catch", Response(ServerErrorBody, JNum(500), JObj(EmptyMap), FALSE))
     ELSE response

\* the lines the operator types, split at spaces; the fourth has two spaces
\* after the command word
ErrorLines ==
  {<<error>>, <<error, Code404>>, <<error, Code500, SlashU>>, <<error, <<>>, Code500>>,
   <<error, Code404, <<"v">>>>}

ServerDisks ==
  DisksWith(<< <<LiteralRuleFile, {PlainRule}>>,
               <<LiteralScenarioFile, {GoneScenario, Malformed}>> >>)
ServerPaths == {SlashU, SlashV}
ServerMethods == {GET, POST, PUT}

InitServer ==
  /\ disk \in ServerDisks
  /\ delay = 0
  /\ errorRate = 0
  /\ nextErrorCode = Null
  /\ errorForPath = Null
  /\ call = [fn |-> "listen"]
  /\ ret = Undefined

\* rl.on('line'), case 'error'
OperatorError ==
  \E args \in ErrorLines :
    /\ IF Len(args) < 2
       THEN UNCHANGED <<nextErrorCode, errorForPath>>
       ELSE /\ nextErrorCode' = JStr(args[2])
            /\ errorForPath' = IF Len(args) >= 3 /\ args[3] # <<>> THEN JStr(args[3]) ELSE Null
    /\ call' = [fn |-> "line", args |-> args]
    /\ ret' = Undefined
    /\ UNCHANGED <<disk, delay, errorRate>>

\* a request passes the forced-error middleware and the mock middleware
HandleRequest ==
  \E path \in ServerPaths, method \in ServerMethods :
    LET forceError == IF DirectiveApplies(path) THEN nextErrorCode ELSE Undefined
    IN /\ nextErrorCode' = IF DirectiveApplies(path) THEN Null ELSE nextErrorCode
       /\ errorForPath' = IF DirectiveApplies(path) THEN Null ELSE errorForPath
       /\ call' = [fn |-> "request", path |-> path, method |-> method,
                   forceError |-> forceError,
                   pending |-> [code |-> nextErrorCode, path |-> errorForPath]]
       /\ ret' = Middleware(path, method, JObj(EmptyMap), JObj(EmptyMap), JObj(EmptyMap), forceError)
       /\ UNCHANGED <<disk, delay, errorRate>>

NextServer == OperatorError \/ HandleRequest

SpecServer == InitServer /\ [][NextServer]_vars

\* the last step served a request
Served == call.fn = "request"

\* the directive the request found names a code, and names no path or a
\* text the request's path contains
CallDirectiveMatches ==
  /\ Truthy(call.pending.code)
  /\ ~Truthy(call.pending.path) \/ Includes(call.path, call.pending.path.str)

Cleared == nextErrorCode = Null /\ errorForPath = Null

\* C4 as stated: a directive is applied to the request that arrives next
\* and is cleared by it, and a request that finds no directive is not
\* forced.
C4_Original ==
  Served =>
    IF Truthy(call.pending.code)
    THEN call.forceError = call.pending.code /\ Cleared /\ ret.via = "forced"
    ELSE call.forceError = Undefined /\ ret.via # "forced"

\* C4: a directive with a code is applied to the first request that arrives
\* after it whose path contains the directive's path text (any request when
\* the directive names no path): that request gets the synthesized error
\* for the code and clears the directive.  A request whose path does not
\* contain the text is resolved normally and leaves the directive pending,
\* and a request that finds no directive is not forced.
C4_AppliedToNextMatching ==
  Served =>
    IF CallDirectiveMatches
    THEN /\ call.forceError = call.pending.code
         /\ Cleared
         /\ ret = Outcome("forced", GetErrorResponse(call.pending.code, call.path, call.method))
    ELSE /\ call.forceError = Undefined
         /\ nextErrorCode = call.pending.code
         /\ errorForPath = call.pending.path
         /\ ret.via # "forced"

\* a request consumed a directive that names a path
C4_Witness ==
  /\ Served
  /\ Truthy(call.pending.path)
  /\ CallDirectiveMatches
  /\ Cleared
  /\ ret.via = "forced"

(***************************************************************************)
(* SpecDelay: getMockResponse with and without a configured delay, over    *)
(* rule trees that lead to every kind of response.                         *)
(***************************************************************************)
DelayDisks ==
  DisksWith(<< <<LiteralRuleFile, {PlainRule, Malformed}>>,
               <<LiteralScenarioFile, {GoneScenario}>>,
               <<ErrorFilePath(JNum(404)), {Template(Name404)}>>,
               <<ErrorFilePath(JNum(500)), {Template(Name500)}>> >>)
DelayPaths == {SlashU, SlashV}
DelayQueries == {JObj(EmptyMap), JObj(MapOf({<<"fail", JStr(<<"1">>)>>}))}
DelayForced == {Undefined, JStr(Code404), JStr(Code500)}
DelayRandom == {<<0, 0, 0>>, <<100, 99, 1>>, <<100, 99, 3>>}

InitDelay ==
  /\ disk \in DelayDisks
  /\ delay \in {0, DelayMs}
  /\ nextErrorCode = Null
  /\ errorForPath = Null
  /\ \E random \in DelayRandom :
       /\ errorRate = random[1]
       /\ call \in [fn : {"getMockResponse"}, requestPath : DelayPaths,
                    method : {GET}, requestBody : {Null},
                    query : DelayQueries, headers : {JObj(EmptyMap)},
                    forceError : DelayForced,
                    sample : {random[2]}, pick : {random[3]}]
  /\ ret = Pending

SpecDelay == InitDelay /\ [][CallGetMockResponse]_vars

\* C11: with a nonzero delay every response of getMockResponse, success or
\* error of any kind, from a template or from the built-in defaults, is
\* held for the delay before it is returned.
C11_DelayUniform ==
  (Returned("getMockResponse") /\ ret # Rejected /\ delay > 0) => ret.response.held

(***************************************************************************)
(* SpecFresh: the rule files are edited between calls of getMockResponse.  *)
(* The field `tree` of a call records the rule tree the last call of       *)
(* getMockResponse ran against, and `earlier` the tree of the call before. *)
(***************************************************************************)
\* the files that are edited, each with the contents it may be given
FreshFiles ==
  << <<LiteralRuleFile, {PlainRule, EchoRule, Malformed}>>,
     <<LegacyRuleFile, {MergeRule}>>,
     <<LiteralScenarioFile, {GoneScenario}>> >>
FreshPaths == {SlashU, SlashV}
FreshQueries == {JObj(EmptyMap), JObj(MapOf({<<"fail", JStr(<<"1">>)>>}))}

\* what an edit keeps of the call before it: the tree the last call of
\* getMockResponse ran against, when there was one
Edited(fn) ==
  IF "tree" \in DOMAIN call THEN [fn |-> fn, tree |-> call.tree] ELSE [fn |-> fn]

InitFresh ==
  /\ disk \in {EmptyDisk, (LiteralRuleFile :> PlainRule)}
  /\ delay \in {0, DelayMs}
  /\ errorRate = 0
  /\ nextErrorCode = Null
  /\ errorForPath = Null
  /\ call = [fn |-> "new"]
  /\ ret = Undefined

\* a rule or scenario file is added or changed
WriteFile ==
  \E i \in 1..Len(FreshFiles) : \E content \in FreshFiles[i][2] :
    /\ disk' = (FreshFiles[i][1] :> content) @@ disk
    /\ call' = Edited("writeFile")
    /\ ret' = Undefined
    /\ UNCHANGED <<delay, errorRate, nextErrorCode, errorForPath>>

\* a rule or scenario file is removed
Unlink ==
  \E file \in DOMAIN disk :
    /\ disk' = [f \in (DOMAIN disk) \ {file} |-> disk[f]]
    /\ call' = Edited("unlink")
    /\ ret' = Undefined
    /\ UNCHANGED <<delay, errorRate, nextErrorCode, errorForPath>>

\* one call of getMockResponse, from its start to its return
Resolve ==
  \E requestPath \in FreshPaths, query \in FreshQueries :
    /\ call' = [fn |-> "getMockResponse", requestPath |-> requestPath, method |-> GET,
                requestBody |-> Null, query |-> query, headers |-> JObj(EmptyMap),
                forceError |-> Undefined, sample |-> 0, pick |-> 0,
                tree |-> disk,
                earlier |-> IF "tree" \in DOMAIN call THEN call.tree ELSE disk,
                knobs |-> [delay |-> delay, errorRate |-> errorRate]]
    /\ ret' = GetMockResponse(requestPath, GET, Null, query, JObj(EmptyMap), Undefined, 0, 0)
    /\ UNCHANGED <<disk, delay, errorRate, nextErrorCode, errorForPath>>

NextFresh == WriteFile \/ Unlink \/ Resolve

SpecFresh == InitFresh /\ [][NextFresh]_vars

\* the last step was a call of getMockResponse
Resolved == call.fn = "getMockResponse" /\ "tree" \in DOMAIN call

ADir == <<"[", "a", "]">>
BDir == <<"[", "b", "]">>
GoneName == GET \o Underscore \o <<"g", "o", "n", "e">>
IndexRuleFile == <<U, IndexJson>>
PostRuleFile == <<U, POST \o DotJson>>
RootParamRuleFile == <<IdDir, GET \o DotJson>>
ParamIndexFile == <<U, IdDir, IndexJson>>
DeepParamRuleFile == <<ADir, BDir, GET \o DotJson>>
ErrorsDirRuleFile == <<U, ErrorsName, GET \o DotJson>>

FindFiles ==
  << <<LiteralRuleFile, {PlainRule}>>, <<LegacyRuleFile, {PlainRule}>>,
     <<IndexRuleFile, {PlainRule}>>, <<PostRuleFile, {PlainRule}>>,
     <<RootParamRuleFile, {ParamRule}>>, <<ParamRuleFile, {ParamRule}>>,
     <<ParamIndexFile, {ParamRule}>>, <<DeepParamRuleFile, {ParamRule}>>,
     <<LiteralScenarioFile, {GoneScenario}>>, <<ErrorsDirRuleFile, {GoneScenario}>>,
     <<ErrorFilePath(JNum(404)), {Template(Name404)}>> >>

FindPaths ==
  {SlashU, U \o Slash, SlashU \o Slash \o <<"5">>, SlashU \o Slash \o GET,
   SlashU \o Slash \o ErrorsName, SlashU \o Slash \o ErrorsName \o Slash \o GoneName,
   Slash \o GlobalErrorsName \o Slash \o Code404}

InitFind ==
  /\ disk \in DisksWith(FindFiles)
  /\ delay = 0
  /\ errorRate = 0
  /\ nextErrorCode = Null
  /\ errorForPath = Null
  /\ call \in [fn : {"findMock"}, requestPath : FindPaths, method : {GET, POST}]
  /\ ret = Pending

CallFindMock ==
  /\ call.fn = "findMock"
  /\ ret = Pending
  /\ ret' = FindMock(call.requestPath, call.method)
  /\ UNCHANGED <<disk, delay, errorRate, nextErrorCode, errorForPath, call>>

SpecFind == InitFind /\ [][CallFindMock]_vars

ParamLegacyFile == <<IdDir, U \o DotJson>>

FallbackFiles ==
  << <<LiteralRuleFile, {PlainRule}>>, <<PostRuleFile, {PlainRule}>>,
     <<RootParamRuleFile, {ParamRule}>>, <<ParamLegacyFile, {ParamRule}>>,
     <<ParamRuleFile, {ParamRule}>>, <<ParamIndexFile, {ParamRule}>>,
     <<DeepParamRuleFile, {ParamRule}>>, <<ErrorsDirRuleFile, {GoneScenario}>>,
     <<ErrorFilePath(JNum(404)), {Template(Name404)}>> >>

\* findMock passes the normalized path
FallbackPaths ==
  {SlashU, SlashU \o Slash \o <<"5">>, SlashU \o Slash \o GET,
   SlashU \o Slash \o ErrorsName, Slash \o GlobalErrorsName \o Slash \o Code404}

InitFallback ==
  /\ disk \in DisksWith(FallbackFiles)
  /\ delay = 0
  /\ errorRate = 0
  /\ nextErrorCode = Null
  /\ errorForPath = Null
  /\ call \in [fn : {"findMockWithParams"}, requestPath : FallbackPaths, method : {GET, POST}]
  /\ ret = Pending

CallFindMockWithParams ==
  /\ call.fn = "findMockWithParams"
  /\ ret = Pending
  /\ ret' = FindMockWithParams(call.requestPath, call.method)
  /\ UNCHANGED <<disk, delay, errorRate, nextErrorCode, errorForPath, call>>

SpecFallback == InitFallback /\ [][CallFindMockWithParams]_vars

HttpMethods == {GET, POST, PUT}

\* the rule files outside every errors and _errors directory
WalkedFiles ==
  {f \in DOMAIN disk :
     /\ EndsWith(f[Len(f)], DotJson)
     /\ \A i \in 1..(Len(f) - 1) : f[i] \notin {ErrorsName, GlobalErrorsName}}

\* the positions of the traversal whose file is compatible with the call's
\* method by its name and matches the call's path by its directory
CallCandidates ==
  {i \in 1..Len(GetAllMockPaths) :
     LET f == GetAllMockPaths[i]
     IN /\ f[Len(f)] \in {call.method \o DotJson, IndexJson, Basename(call.requestPath) \o DotJson}
        /\ ParsePathParams(call.requestPath, MockDirPath(f)) # Null}

\* the traversal lists the rule files outside the error directories, and
\* the call returned the first candidate of the traversal, or null when
\* there is none
CallFirstCandidate ==
  /\ {GetAllMockPaths[i] : i \in 1..Len(GetAllMockPaths)} = WalkedFiles
  /\ IF CallCandidates = {} THEN ret = Null
     ELSE ret = JStr(GetAllMockPaths[CHOOSE i \in CallCandidates : \A j \in CallCandidates : i <= j])

\* C14: findMockWithParams returns the first file of the traversal (error
\* directories left out) that is compatible with the method by its name and
\* matches the path by its directory, null when there is none, and never a
\* file named for another method.
C14_FirstCompatibleMatch ==
  Returned("findMockWithParams") =>
    /\ CallFirstCandidate
    /\ ret # Null =>
         ret.str[Len(ret.str)] \notin {m \o DotJson : m \in HttpMethods \ {call.method}}

(***************************************************************************)
(* SpecScenario: checkForSpecificError, alone and inside getMockResponse,  *)
(* on rule trees with error directories under literal and parametrized     *)
(* directories.  Every scenario payload carries its own `error` text, so   *)
(* a response tells which file it came from.                               *)
(***************************************************************************)
\* a scenario that fires by its condition list: query.fail === '1'
TaggedScenario(tag) ==
  JsonFile(MapOf({<<"error", JStr(tag)>>,
                  <<"_statusCode", JNum(409)>>,
                  <<"_headers", JObj(MapOf({<<"x-err", JStr(tag)>>}))>>,
                  <<"_conditions",
                    JArr(<<JObj(MapOf({<<"query", JObj(MapOf({<<"fail", JStr(<<"1">>)>>}))>>}))>>)>>}))

Five == <<"5">>
LiteralForbiddenFile == <<U, ErrorsName, GET \o Underscore \o forbidden \o DotJson>>
PostScenarioFile == <<U, ErrorsName, POST \o Underscore \o <<"g", "o", "n", "e">> \o DotJson>>
RootParamScenarioFile == <<IdDir, ErrorsName, GoneName \o DotJson>>
BareParamRuleFile == <<ADir, GET \o DotJson>>
DeepParamScenarioFile == <<U, IdDir, ErrorsName, GoneName \o DotJson>>
DeepLiteralScenarioFile == <<U, Five, ErrorsName, GoneName \o DotJson>>

ScenarioFiles ==
  << <<LiteralForbiddenFile, {ForbiddenScenario, Malformed}>>,
     <<LiteralScenarioFile, {GoneScenario}>>,
     <<PostScenarioFile, {TaggedScenario(<<"P">>)}>>,
     <<RootParamScenarioFile, {TaggedScenario(<<"I">>)}>>,
     <<BareParamRuleFile, {ParamRule}>>,
     <<DeepParamScenarioFile, {TaggedScenario(<<"D">>)}>>,
     <<DeepLiteralScenarioFile, {TaggedScenario(<<"L">>)}>>,
     <<LiteralRuleFile, {PlainRule}>> >>

ScenarioPaths == {SlashU, SlashU \o Slash \o Five}
ScenarioQueries == {JObj(EmptyMap), JObj(MapOf({<<"fail", JStr(<<"1">>)>>}))}
ScenarioRequestHeaders == {JObj(EmptyMap), JObj(MapOf({<<"role", JStr(guest)>>}))}

InitScenario ==
  /\ disk \in DisksWith(ScenarioFiles)
  /\ delay = 0
  /\ nextErrorCode = Null
  /\ errorForPath = Null
  /\ \/ /\ errorRate = 0
        /\ call \in [fn : {"checkForSpecificError"}, requestPath : ScenarioPaths,
                     method : {GET, POST}, body : {Null},
                     query : ScenarioQueries, headers : ScenarioRequestHeaders]
     \/ /\ errorRate \in {0, 100}
        /\ call \in [fn : {"getMockResponse"}, requestPath : ScenarioPaths,
                     method : {GET, POST}, requestBody : {Null},
                     query : ScenarioQueries, headers : ScenarioRequestHeaders,
                     forceError : {Undefined}, sample : {0}, pick : {2}]
  /\ ret = Pending

CallCheckForSpecificError ==
  /\ call.fn = "checkForSpecificError"
  /\ ret = Pending
  /\ ret' = CheckForSpecificError(call.requestPath, call.method, call.body, call.query,
                                  call.headers)
  /\ UNCHANGED <<disk, delay, errorRate, nextErrorCode, errorForPath, call>>

NextScenario == CallCheckForSpecificError \/ CallGetMockResponse

SpecScenario == InitScenario /\ [][NextScenario]_vars

\* the non-empty segments of the call's path
CallPathParts == FilterBoolean(SplitSlash(NormalizedPath(call.requestPath)))

\* the entries of dir with a parameter-style name
ParamDirsIn(dir) == {name \in Entries(dir) : IsParamSegment(name)}

\* one level down from dir for the request segment part
DescendOne(dir, part) ==
  IF ParamDirsIn(dir) # {}
  THEN Append(dir, CHOOSE n \in ParamDirsIn(dir) : \A m \in ParamDirsIn(dir) \ {n} : NameBefore(n, m))
  ELSE Append(dir, part)

\* the directory the descent reaches for the call's path (of one or two
\* segments)
CallReachedDir ==
  IF Len(CallPathParts) = 1 THEN DescendOne(<<>>, CallPathParts[1])
  ELSE DescendOne(DescendOne(<<>>, CallPathParts[1]), CallPathParts[2])

CallErrorsDir == Append(CallReachedDir, ErrorsName)

\* the files <METHOD>_<scenario>.json of the errors directory reached
CallScenarioFiles ==
  {name \in Entries(CallErrorsDir) :
     StartsWith(name, call.method \o Underscore) /\ EndsWith(name, DotJson)}

\* the candidate file name fires for the call
CallFires(name) ==
  /\ disk[Append(CallErrorsDir, name)] # Malformed
  /\ ErrorApplies(disk[Append(CallErrorsDir, name)].json,
                  Substring(name, Len(call.method) + 1, Len(name) - 5),
                  Null, call.query, call.headers) = JBool(TRUE)

CallFirstFiring ==
  CHOOSE name \in CallScenarioFiles :
    /\ CallFires(name)
    /\ \A other \in CallScenarioFiles \ {name} : CallFires(other) => NameBefore(name, other)

\* C16: with no forced error and at least one scenario of the request's
\* method firing, getMockResponse returns the response of the first firing
\* candidate in listing order, whatever the error rate and the rules are:
\* the payload's status or 400, the payload's headers or none, and nothing
\* of a later candidate.
C16_FirstFiringScenario ==
  ( /\ Returned("getMockResponse")
    /\ ~Truthy(call.forceError)
    /\ \E name \in CallScenarioFiles : CallFires(name) )
  => LET payload == disk[Append(CallErrorsDir, CallFirstFiring)].json
     IN /\ ret # Rejected
        /\ ret.via = "scenario"
        /\ ret.response.statusCode = OrElse(Get(payload, "_statusCode"), JNum(400))
        /\ ret.response.headers = OrElse(Get(payload, "_headers"), JObj(EmptyMap))
        /\ Get(ret.response.body.obj, "error") = Get(payload, "error")

(***************************************************************************)
(* SpecConcurrent: the server with requests in flight.  A request's        *)
(* handler runs without interruption from the forced-error middleware to   *)
(* its first timer (the await of this.delay); there it is suspended until  *)
(* the timer fires, and other requests and operator lines come in between. *)
(* call.requests lists the requests in their order of arrival and ret the  *)
(* response of each; call.directive numbers the directives the operator    *)
(* has set, and a request's `consumed` is the number of the directive that *)
(* forced it (0 for none).                                                 *)
(***************************************************************************)
delayWord == <<"d", "e", "l", "a", "y">>

ConcurrentDisk ==
  (LiteralRuleFile :> PlainRule) @@ (ErrorFilePath(JNum(500)) :> Template(Name500))

ConcurrentErrorLines == {<<error, Code500>>, <<error, Code404, SlashU>>}
ConcurrentDelayLines == {<<delayWord, <<"0">>>>, <<delayWord, NatToStr(DelayMs)>>}

\* a mutant: the middleware applies the directive and does not clear it
DirectiveKept(path) == <<nextErrorCode, errorForPath>>

\* the directive as the forced-error middleware leaves it for a request
DirectiveAfter(path) ==
  IF DirectiveApplies(path) THEN <<Null, Null>> ELSE <<nextErrorCode, errorForPath>>

InitConcurrent ==
  /\ disk = ConcurrentDisk
  /\ delay \in {0, DelayMs}
  /\ errorRate = 0
  /\ nextErrorCode = Null
  /\ errorForPath = Null
  /\ call = [fn |-> "serve", requests |-> <<>>, commands |-> 0, directive |-> 0]
  /\ ret = <<>>

\* rl.on('line'), case 'error', while requests are in flight
TypeError ==
  \E args \in ConcurrentErrorLines :
    /\ call.commands < MaxCommands
    /\ nextErrorCode' = JStr(args[2])
    /\ errorForPath' = IF Len(args) >= 3 /\ args[3] # <<>> THEN JStr(args[3]) ELSE Null
    /\ call' = [call EXCEPT !.commands = @ + 1, !.directive = @ + 1]
    /\ UNCHANGED <<disk, delay, errorRate, ret>>

\* rl.on('line'), case 'delay'
TypeDelay ==
  \E args \in ConcurrentDelayLines :
    /\ call.commands < MaxCommands
    /\ ParseInt(JStr(args[2])) # NaN
    /\ delay' = ParseInt(JStr(args[2])).num
    /\ call' = [call EXCEPT !.commands = @ + 1]
    /\ UNCHANGED <<disk, errorRate, nextErrorCode, errorForPath, ret>>

\* a request arrives: the forced-error middleware and the mock middleware
\* run up to the timer of the delay, or to the end when nothing waits
Arrive ==
  \E path \in {SlashU, SlashV} :
    LET applies == DirectiveApplies(path)
        forceError == IF applies THEN nextErrorCode ELSE Undefined
        response == Middleware(path, GET, JObj(EmptyMap), JObj(EmptyMap), JObj(EmptyMap),
                               forceError)
    IN /\ Len(call.requests) < MaxRequests
       /\ nextErrorCode' = DirectiveAfter(path)[1]
       /\ errorForPath' = DirectiveAfter(path)[2]
       /\ call' = [call EXCEPT !.requests =
                     Append(@, [path |-> path, forceError |-> forceError,
                                found |-> <<nextErrorCode, errorForPath>>,
                                left |-> <<nextErrorCode', errorForPath'>>,
                                consumed |-> IF applies THEN call.directive ELSE 0,
                                suspended |-> response.response.held])]
       /\ ret' = Append(ret, response)
       /\ UNCHANGED <<disk, delay, errorRate>>

\* the timer of a suspended request fires and its response is sent
TimerFires ==
  \E i \in 1..Len(call.requests) :
    /\ call.requests[i].suspended
    /\ call' = [call EXCEPT !.requests[i].suspended = FALSE]
    /\ UNCHANGED <<disk, delay, errorRate, nextErrorCode, errorForPath, ret>>

NextConcurrent == TypeError \/ TypeDelay \/ Arrive \/ TimerFires

SpecConcurrent == InitConcurrent /\ [][NextConcurrent]_vars

\* the directive request r found names a code, and no path or a text the
\* request's path contains
FoundMatches(r) ==
  /\ Truthy(r.found[1])
  /\ ~Truthy(r.found[2]) \/ Includes(r.path, r.found[2].str)

\* C17: whatever requests are in flight, a request whose path contains the
\* pending directive's text (or that finds a directive without a text) is
\* forced and clears the directive; any other request is not forced and
\* leaves the directive as it found it; no two requests are forced by the
\* same directive, and a directive that is still pending has forced none.
C17_OneRequestPerDirective ==
  call.fn = "serve" =>
    /\ \A i \in 1..Len(call.requests) :
         LET r == call.requests[i]
         IN IF FoundMatches(r)
            THEN /\ r.forceError = r.found[1]
                 /\ r.left = <<Null, Null>>
                 /\ r.consumed # 0
                 /\ ret[i].via = "forced"
            ELSE /\ r.forceError = Undefined
                 /\ r.left = r.found
                 /\ r.consumed = 0
                 /\ ret[i].via # "forced"
    /\ \A i, j \in 1..Len(call.requests) :
         (i # j /\ call.requests[i].consumed # 0)
           => call.requests[i].consumed # call.requests[j].consumed
    /\ (call.directive = 0) => (nextErrorCode = Null /\ errorForPath = Null)
    /\ Truthy(nextErrorCode) =>
         \A i \in 1..Len(call.requests) : call.requests[i].consumed # call.directive

\* a request that does not match passed a path-scoped directive, which a
\* later request consumed while an earlier one was still suspended
C17_Witness ==
  /\ call.fn = "serve"
  /\ Len(call.requests) = 3
  /\ call.requests[1].suspended
  /\ call.requests[2].path = SlashV
  /\ Truthy(call.requests[2].found[2])
  /\ call.requests[2].consumed = 0
  /\ call.requests[3].consumed # 0
  /\ call.requests[3].found = call.requests[2].found

\* C18: findMock never returns the rule file of another method, nor a file
\* under an errors or _errors directory, whatever the request path is.
C18_MethodSafety ==
  (Returned("findMock") /\ ret # Null) =>
    /\ ret.str[Len(ret.str)] \notin {m \o DotJson : m \in HttpMethods \ {call.method}}
    /\ \A i \in 1..(Len(ret.str) - 1) : ret.str[i] \notin {ErrorsName, GlobalErrorsName}

====
